---- MODULE Spec2Model ----
(***************************************************************************)
(* Model of the nexus storefront core: the Catalog Store (MongoDB          *)
(* collection products), the Inventory Ledger and the Order Ledger (SQL    *)
(* tables inventory, orders, order_items), and the service methods of      *)
(* ProductService and OrderService that write and read them.               *)
(*                                                                         *)
(* The relational store is PostgreSQL (product_service.py:16), modelled as  *)
(* a READ COMMITTED database with row locks: inv and orders hold the       *)
(* committed rows; session[c] holds the                                    *)
(* Inventory rows that the transaction of checkout call c has selected     *)
(* FOR UPDATE, with the stock value of its in-memory object.  A row in     *)
(* session[c] is row-locked by c until c commits or rolls back.            *)
(* Prices are integers (cents); Python floats are not modelled.            *)
(***************************************************************************)
EXTENDS Integers, Sequences, FiniteSets, TLC

\* ------------------------------------------------------------------ bounds
NumCalls == 2        \* concurrent create_order calls
MaxCartLen == 2      \* line items per call
MaxProducts == 3     \* product identifiers ever issued
InitProducts == 2    \* products present at start
InitStock == 3       \* their stock at start
MaxQty == 2          \* largest quantity of a line item
MaxAdminOps == 2     \* admin operations (create/update/delete/status) started

Calls == 1..NumCalls
ProductIds == 1..MaxProducts
\* A well-formed identifier that the document store never issues.
UnknownId == MaxProducts + 1

\* ------------------------------------------------------------ input values
\* A caller-supplied scalar is either numeric text/number n, or text that
\* int()/float() rejects with ValueError.
Num(n) == <<"num", n>>
Bad == <<"bad", 0>>
IsNum(x) == x[1] = "num"
\* int(x) / float(x) of an accepted value
IntOf(x) == x[2]

BasePrice == 10
NewPrice == 20
QtyInputs == {Num(q) : q \in 1..MaxQty} \cup {Bad}
StockInputs == {Num(0), Num(MaxQty), Num(-1), Bad}
PriceInputs == {Num(BasePrice), Num(NewPrice)}

ItemInputs(pids, qtys, prices) == [product_id : pids, qty : qtys, price : prices]
CartInputs(items) == UNION {[1..n -> items] : n \in 0..MaxCartLen}

\* Carts of the checkout-only specification: every product id, every
\* quantity, one price.
OrderCarts == CartInputs(ItemInputs(ProductIds, QtyInputs, {Num(BasePrice)}))
\* Carts of the full specification: the products present at start, the
\* largest quantity; product 1 at the price the catalog starts with, the
\* others at a price the catalog does not show.
StoreItems ==
  {[product_id |-> p, qty |-> Num(MaxQty),
    price |-> Num(IF p = 1 THEN BasePrice ELSE NewPrice)] : p \in 1..InitProducts}
StoreCarts == CartInputs(StoreItems)

NoRows == [p \in {} |-> 0]
\* Product names are sequences of characters.
Name0 == <<"A", "b">>
Name1 == <<"b", "c">>
\* The categories of the catalog.
Categories == {"c1", "c2"}
\* specs of a document created without specifications: {}
NoSpecs == [k \in {} |-> 0]
\* image of a document created without one
DefaultImage == "https://placehold.co/600x400"
\* The document create_product builds and the seed inserts.
ProductDocument(name, price, category, image, specs, created_at) ==
  [name |-> name, price |-> price, category |-> category, image |-> image,
   specs |-> specs, created_at |-> created_at]
\* Arguments of an admin operation that is not running.
NoArgs == <<>>
\* Mutant: the DELETE statements lose their WHERE clause.
Without_all(f, p) == [q \in {} |-> f[q]]
\* The rows or documents left when the one with key p is deleted.
Without(f, p) == [q \in DOMAIN f \ {p} |-> f[q]]

\* No read operation has returned yet.
NoView == [op |-> "none"]

VARIABLES
  docs,          \* Catalog Store: product id -> document
  inv,           \* Inventory Ledger, committed rows: product id -> stock
  orders,        \* Order Ledger, committed: sequence of orders, id = index
  nextId,        \* next identifier the document store assigns
  pc,            \* create_order call -> position
  cart,          \* create_order call -> cart_items argument
  idx,           \* create_order call -> index of the item being processed
  new_items,     \* create_order call -> OrderItems built so far
  total_amount,  \* create_order call -> accumulated total
  session,       \* create_order call -> locked Inventory rows and their stock
  outcome,       \* create_order call -> how the call ended
  ops,           \* admin operations started
  kpc, kArgs, kId, kResult,     \* create_product: position, args, new id, result
  upc, uArgs, uLoaded, uResult, \* update_product('stock')
  dpc, dPid,                    \* delete_product
  view           \* what the last read operation returned

orderVars == <<pc, cart, idx, new_items, total_amount, session, outcome>>
adminVars == <<ops, kpc, kArgs, kId, kResult, upc, uArgs, uLoaded, uResult, dpc, dPid>>
vars == <<docs, inv, orders, nextId, orderVars, adminVars, view>>

\* No checkout call and no admin operation has started, no read has returned.
Quiet ==
  /\ pc = [c \in Calls |-> "idle"]
  /\ cart = [c \in Calls |-> <<>>]
  /\ idx = [c \in Calls |-> 0]
  /\ new_items = [c \in Calls |-> <<>>]
  /\ total_amount = [c \in Calls |-> 0]
  /\ session = [c \in Calls |-> NoRows]
  /\ outcome = [c \in Calls |-> "running"]
  /\ ops = 0
  /\ kpc = "idle" /\ kArgs = NoArgs /\ kId = 0 /\ kResult = "none"
  /\ upc = "idle" /\ uArgs = NoArgs /\ uLoaded = 0 /\ uResult = "none"
  /\ dpc = "idle" /\ dPid = 0
  /\ view = NoView

Init ==
  /\ docs = [p \in 1..InitProducts |->
               ProductDocument(Name0, BasePrice, "c1", "img", NoSpecs, p)]
  /\ inv = [p \in 1..InitProducts |-> InitStock]
  /\ orders = <<>>
  /\ nextId = InitProducts + 1
  /\ Quiet

\* ------------------------------------------------------------ row locking
\* The calls whose transaction holds the row lock of product p.
LockedBy(p) == {c \in Calls : p \in DOMAIN session[c]}
\* Mutant: the SELECT carries no FOR UPDATE, so it never waits.
LockFree_unlocked(p, c) == TRUE
\* No transaction other than c holds the row lock of p.
LockFree(p, c) == LockedBy(p) \subseteq {c}

\* --------------------------------------------------------- OrderService
\* Stock that call c sees for a row it has selected FOR UPDATE.
SeenStock(c, p) == IF p \in DOMAIN session[c] THEN session[c][p] ELSE inv[p]

OrderItem(product_id, qty, price) ==
  [product_id_str |-> product_id, quantity |-> qty, price_at_purchase |-> price]

Order(c, items, total) ==
  [customer |-> c, total_amount |-> total, status |-> "Processing", items |-> items]

\* Mutant: the line is added to the total without its quantity.
line_total_unit(price, qty) == price
\* What one line item adds to total_amount.
line_total(price, qty) == price * qty

\* qty = int(item["qty"]) and price = float(item["price"]) of a line item.
item_qty(item) == IntOf(item.qty)
\* Mutant: the price is re-read from the catalog document.
item_price_catalog(item) ==
  IF item.product_id \in DOMAIN docs THEN docs[item.product_id].price ELSE IntOf(item.price)
item_price(item) == IntOf(item.price)

\* Mutant: the rows are written one statement at a time in autocommit, and
\* only the first has become visible.
Flushed_partial(rows, sess) ==
  [p \in DOMAIN rows |->
     IF p \in DOMAIN sess /\ (\A q \in DOMAIN sess : p <= q) THEN sess[p] ELSE rows[p]]
\* The committed inventory after the session's rows are written (commit).
Flushed(rows, sess) == [p \in DOMAIN rows |-> IF p \in DOMAIN sess THEN sess[p] ELSE rows[p]]

\* Mutant: the except branch commits what was flushed instead of rolling back.
RolledBack_committed(rows, sess) == Flushed(rows, sess)
\* The committed inventory after sql_db.session.rollback().
RolledBack(rows, sess) == rows

\* Mutant: the empty cart is not turned away and goes on to the commit.
create_order_begin_unchecked(c, carts) ==
  /\ pc[c] = "idle"
  /\ \E cs \in carts :
       /\ cart' = [cart EXCEPT ![c] = cs]
       /\ pc' = [pc EXCEPT ![c] = IF cs = <<>> THEN "commit" ELSE "loop"]
       /\ idx' = [idx EXCEPT ![c] = 1]
  /\ UNCHANGED <<docs, inv, orders, nextId, new_items, total_amount, session, outcome, adminVars, view>>

create_order_begin(c, carts) ==
  /\ pc[c] = "idle"
  /\ \E cs \in carts :
       /\ cart' = [cart EXCEPT ![c] = cs]
       /\ IF cs = <<>>
            THEN /\ pc' = [pc EXCEPT ![c] = "done"]
                 /\ outcome' = [outcome EXCEPT ![c] = "none"]
                 /\ idx' = idx
            ELSE /\ pc' = [pc EXCEPT ![c] = "loop"]
                 /\ idx' = [idx EXCEPT ![c] = 1]
                 /\ outcome' = outcome
  /\ UNCHANGED <<docs, inv, orders, nextId, new_items, total_amount, session, adminVars, view>>

\* Mutant: an item whose product has no inventory row is passed over.
no_inventory_row_skipped(c) ==
  /\ idx' = [idx EXCEPT ![c] = @ + 1]
  /\ pc' = [pc EXCEPT ![c] = IF idx[c] = Len(cart[c]) THEN "commit" ELSE "loop"]
  /\ UNCHANGED <<session, new_items, total_amount, outcome>>
\* if not inventory: raise ValueError("Out of stock ...")
no_inventory_row(c) ==
  /\ pc' = [pc EXCEPT ![c] = "except"]
  /\ outcome' = [outcome EXCEPT ![c] = "out_of_stock"]
  /\ UNCHANGED <<session, new_items, total_amount, idx>>

create_order_item(c) ==
  /\ pc[c] = "loop"
  /\ LET item == cart[c][idx[c]]
         pid == item.product_id
     IN IF ~IsNum(item.qty) \/ ~IsNum(item.price)
          THEN /\ pc' = [pc EXCEPT ![c] = "except"]
               /\ outcome' = [outcome EXCEPT ![c] = "malformed"]
               /\ UNCHANGED <<session, new_items, total_amount, idx>>
          ELSE LET qty == item_qty(item)
                   price == item_price(item)
               IN IF pid \notin DOMAIN inv
                    THEN no_inventory_row(c)
                    ELSE /\ LockFree(pid, c)
                         /\ IF SeenStock(c, pid) < qty
                              THEN /\ session' = [session EXCEPT ![c] =
                                        (pid :> SeenStock(c, pid)) @@ @]
                                   /\ pc' = [pc EXCEPT ![c] = "except"]
                                   /\ outcome' = [outcome EXCEPT ![c] = "out_of_stock"]
                                   /\ UNCHANGED <<new_items, total_amount, idx>>
                              ELSE /\ session' = [session EXCEPT ![c] =
                                        (pid :> SeenStock(c, pid) - qty) @@ @]
                                   /\ new_items' = [new_items EXCEPT ![c] =
                                        Append(@, OrderItem(pid, qty, price))]
                                   /\ total_amount' = [total_amount EXCEPT ![c] = @ + line_total(price, qty)]
                                   /\ idx' = [idx EXCEPT ![c] = @ + 1]
                                   /\ pc' = [pc EXCEPT ![c] =
                                        IF idx[c] = Len(cart[c]) THEN "commit" ELSE "loop"]
                                   /\ outcome' = outcome
  /\ UNCHANGED <<docs, inv, orders, nextId, cart, adminVars, view>>

create_order_commit(c) ==
  /\ pc[c] = "commit"
  /\ inv' = Flushed(inv, session[c])
  /\ orders' = Append(orders, Order(c, new_items[c], total_amount[c]))
  /\ session' = [session EXCEPT ![c] = NoRows]
  /\ pc' = [pc EXCEPT ![c] = "done"]
  /\ outcome' = [outcome EXCEPT ![c] = "ok"]
  /\ UNCHANGED <<docs, nextId, cart, idx, new_items, total_amount, adminVars, view>>

\* The store raises at the query of line 49 or at the commit of line 81.
create_order_fault(c) ==
  /\ pc[c] \in {"loop", "commit"}
  /\ pc' = [pc EXCEPT ![c] = "except"]
  /\ outcome' = [outcome EXCEPT ![c] = "store_error"]
  /\ UNCHANGED <<docs, inv, orders, nextId, cart, idx, new_items, total_amount, session, adminVars, view>>

create_order_except(c) ==
  /\ pc[c] = "except"
  /\ inv' = RolledBack(inv, session[c])
  /\ session' = [session EXCEPT ![c] = NoRows]
  /\ pc' = [pc EXCEPT ![c] = "done"]
  /\ UNCHANGED <<docs, orders, nextId, cart, idx, new_items, total_amount, outcome, adminVars, view>>

NextOrders ==
  \E c \in Calls :
    \/ create_order_begin(c, OrderCarts)
    \/ create_order_item(c)
    \/ create_order_commit(c)
    \/ create_order_fault(c)
    \/ create_order_except(c)

SpecOrders == Init /\ [][NextOrders]_vars

\* -------------------------------------------------------- ProductService
Statuses == {"Shipped", "Cancelled"}
Fields == {"stock", "price", "name"}

create_product_begin ==
  /\ kpc = "idle" /\ ops < MaxAdminOps /\ nextId <= MaxProducts
  /\ ops' = ops + 1
  /\ \E price \in PriceInputs \cup {Bad}, stock \in StockInputs :
       /\ IF ~IsNum(price)
            THEN /\ kResult' = "bad_price"
                 /\ kId' = 0
                 /\ UNCHANGED <<docs, nextId, kpc, kArgs>>
            ELSE /\ kArgs' = <<price, stock>>
                 /\ docs' = (nextId :> ProductDocument(Name0, IntOf(price), "c1", DefaultImage,
                                                    NoSpecs, nextId)) @@ docs
                 /\ kId' = nextId
                 /\ nextId' = nextId + 1
                 /\ kpc' = "inserted"
                 /\ kResult' = "running"
  /\ UNCHANGED <<inv, orders, orderVars, upc, uArgs, uLoaded, uResult, dpc, dPid, view>>

\* Mutant: the Inventory row is added to the session but never committed.
InsertedInventory_uncommitted(rows, id, stock) == rows
\* The committed inventory after the new row is added and committed.
InsertedInventory(rows, id, stock) == (id :> stock) @@ rows

create_product_inventory ==
  /\ kpc = "inserted"
  /\ kpc' = "idle"
  /\ IF ~IsNum(kArgs[2])
       THEN /\ kResult' = "bad_stock"
            /\ inv' = inv
       ELSE /\ kResult' = "ok"
            /\ inv' = InsertedInventory(inv, kId, IntOf(kArgs[2]))
  /\ kArgs' = NoArgs
  /\ UNCHANGED <<docs, orders, nextId, orderVars, ops, kId, upc, uArgs, uLoaded, uResult, dpc, dPid, view>>

\* The inventory insert or its commit raises SQLAlchemyError.
create_product_fault ==
  /\ kpc = "inserted"
  /\ IsNum(kArgs[2])
  /\ kpc' = "compensate"
  /\ UNCHANGED <<docs, inv, orders, nextId, orderVars, ops, kArgs, kId, kResult, upc, uArgs, uLoaded, uResult, dpc, dPid, view>>

create_product_compensate ==
  /\ kpc = "compensate"
  /\ docs' = Without(docs, kId)
  /\ kpc' = "idle"
  /\ kResult' = "store_error"
  /\ kArgs' = NoArgs
  /\ UNCHANGED <<inv, orders, nextId, orderVars, ops, kId, upc, uArgs, uLoaded, uResult, dpc, dPid, view>>

\* Mutant: the update rewrites the document and stamps it with a new time.
SetField_stamped(doc, field, v) == [doc EXCEPT ![field] = v, !.created_at = @ + 1]
\* {"$set": {field: v}} applied to one document.
SetField(doc, field, v) == [doc EXCEPT ![field] = v]

\* update_one({"_id": id}, {"$set": {field: v}}): the collection afterwards.
\* A filter that matches no document changes nothing.
update_one(coll, id, field, v) ==
  IF id \in DOMAIN coll THEN [coll EXCEPT ![id] = SetField(@, field, v)] ELSE coll

\* The identifiers an admin request can carry: those issued so far, and one
\* that was never issued.
AdminIds == 1..(nextId - 1) \cup {UnknownId}
\* The values the admin form sends for a field.
FieldValues(field) ==
  IF field = "stock" THEN StockInputs
  ELSE IF field = "price" THEN PriceInputs \cup {Bad}
  ELSE {Name1}

\* update_product up to its first store access: the whole call for a
\* document field, the Inventory.query.get for 'stock'.
update_product_run(product_id, field, value) ==
  /\ upc = "idle" /\ ops < MaxAdminOps
  /\ ops' = ops + 1
  /\ IF field = "stock"
       THEN /\ IF product_id \in DOMAIN inv
                 THEN /\ upc' = "loaded"
                      /\ uArgs' = <<product_id, value>>
                      /\ uLoaded' = inv[product_id]
                      /\ uResult' = "running"
                 ELSE /\ uResult' = "not_found"
                      /\ UNCHANGED <<upc, uArgs, uLoaded>>
            /\ docs' = docs
       ELSE IF field = "price"
         THEN /\ IF ~IsNum(value)
                   THEN /\ uResult' = "malformed"
                        /\ docs' = docs
                   ELSE /\ uResult' = "ok"
                        /\ docs' = update_one(docs, product_id, "price", IntOf(value))
              /\ UNCHANGED <<upc, uArgs, uLoaded>>
         ELSE /\ uResult' = "ok"
              /\ docs' = update_one(docs, product_id, field, value)
              /\ UNCHANGED <<upc, uArgs, uLoaded>>
  /\ UNCHANGED <<inv, orders, nextId, orderVars, kpc, kArgs, kId, kResult, dpc, dPid>>

update_product(product_id, field, value) ==
  /\ update_product_run(product_id, field, value)
  /\ UNCHANGED view

update_product_begin ==
  \E product_id \in AdminIds, field \in Fields :
    \E value \in FieldValues(field) : update_product(product_id, field, value)

update_product_commit ==
  /\ upc = "loaded"
  /\ upc' = "idle"
  /\ uArgs' = NoArgs
  /\ uLoaded' = 0
  /\ LET pid == uArgs[1]
         value == uArgs[2]
     IN IF ~IsNum(value)
          THEN /\ uResult' = "malformed"
               /\ inv' = inv
          ELSE IF pid \notin DOMAIN inv
                 THEN /\ uResult' = "store_error"
                      /\ inv' = inv
                 ELSE /\ LockFree(pid, 0)
                      /\ uResult' = "ok"
                      /\ inv' = IF IntOf(value) # uLoaded
                                  THEN [inv EXCEPT ![pid] = IntOf(value)]
                                  ELSE inv
  /\ UNCHANGED <<docs, orders, nextId, orderVars, ops, kpc, kArgs, kId, kResult, dpc, dPid, view>>

\* Mutant: the document is deleted first and the inventory row second.
delete_product_docfirst(product_id) ==
  /\ dpc = "idle" /\ ops < MaxAdminOps
  /\ ops' = ops + 1
  /\ docs' = Without(docs, product_id)
  /\ dPid' = product_id
  /\ dpc' = "sql_done"
  /\ UNCHANGED <<inv, orders, nextId, orderVars, kpc, kArgs, kId, kResult, upc, uArgs, uLoaded, uResult, view>>

\* delete_product up to the SQL commit.
delete_product(product_id) ==
  /\ dpc = "idle" /\ ops < MaxAdminOps
  /\ ops' = ops + 1
  /\ product_id \in DOMAIN inv => LockFree(product_id, 0)
  /\ inv' = Without(inv, product_id)
  /\ dPid' = product_id
  /\ dpc' = "sql_done"
  /\ UNCHANGED <<docs, orders, nextId, orderVars, kpc, kArgs, kId, kResult, upc, uArgs, uLoaded, uResult, view>>

delete_product_begin == \E product_id \in AdminIds : delete_product(product_id)

delete_product_mongo ==
  /\ dpc = "sql_done"
  /\ docs' = Without(docs, dPid)
  /\ dpc' = "idle"
  /\ dPid' = 0
  /\ UNCHANGED <<inv, orders, nextId, orderVars, ops, kpc, kArgs, kId, kResult, upc, uArgs, uLoaded, uResult, view>>

\* Mutant: the order row is rebuilt from the form and loses its items.
SetStatus_rebuilt(order, new_status) == [order EXCEPT !.status = new_status, !.items = <<>>]
\* Mutant: only an order still in Processing accepts a new status.
SetStatus_forward(order, new_status) ==
  IF order.status = "Processing" THEN [order EXCEPT !.status = new_status] ELSE order
SetStatus(order, new_status) == [order EXCEPT !.status = new_status]

\* update_status without what it returns.
set_status(order_id, new_status) ==
  /\ ops < MaxAdminOps
  /\ ops' = ops + 1
  /\ orders' = IF order_id \in DOMAIN orders
                 THEN [orders EXCEPT ![order_id] = SetStatus(@, new_status)]
                 ELSE orders
  /\ UNCHANGED <<docs, inv, nextId, orderVars, kpc, kArgs, kId, kResult, upc, uArgs, uLoaded, uResult, dpc, dPid>>

update_status ==
  /\ \E order_id \in 1..(Len(orders) + 1), new_status \in Statuses :
       set_status(order_id, new_status)
  /\ UNCHANGED view

Next ==
  \/ \E c \in Calls : create_order_begin(c, StoreCarts)
  \/ \E c \in Calls : create_order_item(c)
  \/ \E c \in Calls : create_order_commit(c)
  \/ \E c \in Calls : create_order_fault(c)
  \/ \E c \in Calls : create_order_except(c)
  \/ create_product_begin
  \/ create_product_inventory
  \/ create_product_fault
  \/ create_product_compensate
  \/ update_product_begin
  \/ update_product_commit
  \/ delete_product_begin
  \/ delete_product_mongo
  \/ update_status

Spec == Init /\ [][Next]_vars

\* The product administration alone: no checkout is running.
NextAdmin ==
  \/ create_product_begin
  \/ create_product_inventory
  \/ create_product_fault
  \/ create_product_compensate
  \/ update_product_begin
  \/ update_product_commit
  \/ delete_product_begin
  \/ delete_product_mongo

SpecAdmin == Init /\ [][NextAdmin]_vars

\* ------------------------------------------ create_order, any integer qty
\* Line items whose qty is an integer of either sign: int(item["qty"]) takes
\* each of them.
SignedQtyInputs == {Num(-1), Num(0), Num(1)}
SignedCarts == CartInputs(ItemInputs(1..InitProducts, SignedQtyInputs, {Num(BasePrice)}))

NextSigned ==
  \E c \in Calls :
    \/ create_order_begin(c, SignedCarts)
    \/ create_order_item(c)
    \/ create_order_commit(c)
    \/ create_order_fault(c)
    \/ create_order_except(c)

SpecSigned == Init /\ [][NextSigned]_vars

\* ------------------------------------- stock updates beside create_order
\* The stock values an admin sets: none left, one checkout's worth, and the
\* count the products start with.
NewStockInputs == {Num(0), Num(MaxQty), Num(InitStock)}

\* update_product(product_id, "stock", value), the request kept for the
\* comparison with its result.
update_stock_call(product_id, value) ==
  /\ update_product_run(product_id, "stock", value)
  /\ view' = [op |-> "update_product", arg |-> <<product_id, IntOf(value)>>]

NextStock ==
  \/ \E c \in Calls : create_order_begin(c, StoreCarts)
  \/ \E c \in Calls : create_order_item(c)
  \/ \E c \in Calls : create_order_commit(c)
  \/ \E c \in Calls : create_order_fault(c)
  \/ \E c \in Calls : create_order_except(c)
  \/ \E product_id \in 1..InitProducts, value \in NewStockInputs :
       update_stock_call(product_id, value)
  \/ update_product_commit

SpecStock == Init /\ [][NextStock]_vars

\* ------------------------------------------- update_status and its result
\* The status values a caller sends: the known ones and one that is not.
StatusInputs == Statuses \cup {"Processing", "Bogus"}

\* update_status with the order it returns, or None.
update_status_call(order_id, new_status) ==
  /\ set_status(order_id, new_status)
  /\ view' = [op |-> "update_status",
              result |-> IF order_id \in DOMAIN orders
                           THEN SetStatus(orders[order_id], new_status)
                           ELSE [none |-> TRUE]]

NextStatus ==
  \/ \E c \in Calls : create_order_begin(c, StoreCarts)
  \/ \E c \in Calls : create_order_item(c)
  \/ \E c \in Calls : create_order_commit(c)
  \/ \E c \in Calls : create_order_fault(c)
  \/ \E c \in Calls : create_order_except(c)
  \/ \E order_id \in 1..(Len(orders) + 1), new_status \in StatusInputs :
       update_status_call(order_id, new_status)

SpecStatus == Init /\ [][NextStatus]_vars

\* ---------------------------------------------------------- read operations
\* Every read leaves the stores and the running calls as they are.
ReadOnly == UNCHANGED <<docs, inv, orders, nextId, orderVars, adminVars>>
\* What a read returns when it finds nothing.
None == [none |-> TRUE]
Range(f) == {f[x] : x \in DOMAIN f}

ArchivedProduct == <<"A", "r", "c", "h", "i", "v", "e", "d", " ", "P", "r", "o", "d", "u", "c", "t">>
Placeholder == "/static/placeholder.png"

\* Mutant: the batch fetch degenerates to find_one and returns one document.
find_in_one(coll, oids) ==
  {id \in oids \cap DOMAIN coll : \A other \in oids \cap DOMAIN coll : id <= other}
\* find({"_id": {"$in": oids}}): the ids of the documents returned.
find_in(coll, oids) == oids \cap DOMAIN coll

\* OrderItem.to_dict()
item_to_dict(item) ==
  [product_id |-> item.product_id_str, quantity |-> item.quantity,
   price |-> item.price_at_purchase]

\* One item of the view model, enriched from the lookup map.
enrich(item_data, product_map) ==
  LET pid == item_data.product_id
  IN IF pid \in DOMAIN product_map
       THEN [product_id |-> pid, quantity |-> item_data.quantity, price |-> item_data.price,
             name |-> product_map[pid].name, image |-> product_map[pid].image]
       ELSE [product_id |-> pid, quantity |-> item_data.quantity, price |-> item_data.price,
             name |-> ArchivedProduct, image |-> Placeholder]

\* The dictionary get_order_with_details returns for an order that exists.
order_dict(order_id) ==
  LET order == orders[order_id]
      product_ids_str == [k \in DOMAIN order.items |-> order.items[k].product_id_str]
      oids == Range(product_ids_str)
      mongo_docs == find_in(docs, oids)
      product_map == [id \in mongo_docs |-> docs[id]]
  IN [id |-> order_id, total_amount |-> order.total_amount, status |-> order.status,
      items |-> [k \in DOMAIN order.items |->
                   enrich(item_to_dict(order.items[k]), product_map)]]

get_order_with_details(order_id) ==
  /\ view = NoView
  /\ view' = [op |-> "get_order_with_details", arg |-> order_id,
              result |-> IF order_id \in DOMAIN orders THEN order_dict(order_id) ELSE None]
  /\ ReadOnly

\* --------------------------------------------------------- dashboard stats
\* An SQL scalar: NULL, or a number.
Null == <<>>
Scalar(n) == <<n>>

RECURSIVE sum_total_amount(_)
\* func.sum(Order.total_amount) over the rows given; NULL over no row.
sum_total_amount(rows) ==
  IF rows = <<>> THEN Null
  ELSE LET rest == sum_total_amount(Tail(rows))
       IN IF rest = Null THEN Scalar(Head(rows).total_amount)
                         ELSE Scalar(Head(rows).total_amount + rest[1])

\* x or 0.0: NULL and zero are both falsy.
or_zero(x) == IF x = Null THEN 0 ELSE IF x[1] = 0 THEN 0 ELSE x[1]

\* Mutant: the sum leaves out the orders that were cancelled.
get_total_revenue_confirmed ==
  or_zero(sum_total_amount(SelectSeq(orders, LAMBDA o : o.status # "Cancelled")))
get_total_revenue == or_zero(sum_total_amount(orders))

count_orders == Len(orders)

\* ------------------------------------------------------------- get_catalog
MaxPage == 2
PageSizes == {1, 2}
\* Case folding of a character ($options: "i").
lower(ch) == IF ch = "A" THEN "a" ELSE IF ch = "B" THEN "b" ELSE IF ch = "C" THEN "c" ELSE ch
\* {"$regex": term, "$options": "i"} for a term without metacharacters: the
\* term occurs in the name, case ignored.
regex_i(term, name) ==
  \E i \in 0..(Len(name) - Len(term)) :
    \A j \in 1..Len(term) : lower(name[i + j]) = lower(term[j])

\* The search terms, categories and spec filters a page request carries;
\* <<>> and "" are the absent ones.
SearchInputs == {<<>>, <<"a">>, <<"z">>}
CategoryInputs == {""} \cup Categories
NoFilters == [k \in {} |-> {}]
SpecFilterInputs ==
  {NoFilters, ("ram" :> {2}), ("ram" :> {1, 2}) @@ ("brand" :> {1}), ("ram" :> {})}

\* Mutant: a document passes when any one filtered attribute is accepted.
matches_any(doc, search_query, category, spec_filters) ==
  /\ search_query # <<>> => regex_i(search_query, doc.name)
  /\ category # "" => doc.category = category
  /\ \/ \A key \in DOMAIN spec_filters : spec_filters[key] = {}
     \/ \E key \in DOMAIN spec_filters :
          key \in DOMAIN doc.specs /\ doc.specs[key] \in spec_filters[key]

\* The document passes mongo_filter.
matches(doc, search_query, category, spec_filters) ==
  /\ search_query # <<>> => regex_i(search_query, doc.name)
  /\ category # "" => doc.category = category
  /\ \A key \in DOMAIN spec_filters :
       spec_filters[key] # {} =>
         (key \in DOMAIN doc.specs /\ doc.specs[key] \in spec_filters[key])

RECURSIVE newest_first(_, _)
\* sort("created_at", -1) of the documents with the given ids.
newest_first(coll, ids) ==
  IF ids = {} THEN <<>>
  ELSE LET id == CHOOSE x \in ids : \A y \in ids : coll[x].created_at >= coll[y].created_at
       IN <<id>> \o newest_first(coll, ids \ {id})

\* cursor.skip(skip).limit(per_page)
skip_limit(seq, skip, per_page) ==
  SubSeq(seq, skip + 1, IF skip + per_page < Len(seq) THEN skip + per_page ELSE Len(seq))

\* Mutant: every fetched product is given the stock of one same row.
inventory_map_any(rows, p_ids) ==
  [id \in p_ids \cap DOMAIN rows |-> rows[CHOOSE q \in DOMAIN rows : TRUE]]
\* Inventory.query.filter(Inventory.product_id.in_(p_ids)).all() as a map.
inventory_map(rows, p_ids) == [id \in p_ids \cap DOMAIN rows |-> rows[id]]

\* Mutant: one Inventory query per fetched document.
inventory_queries_per_item(products) == Len(products)
\* The Inventory queries one call issues: the join runs only `if products`.
inventory_queries(products) == IF products # <<>> THEN 1 ELSE 0

\* A document as returned, with its id as text and its stock merged in.
with_stock(coll, id, stock) ==
  [_id |-> id, name |-> coll[id].name, price |-> coll[id].price,
   category |-> coll[id].category, image |-> coll[id].image,
   specs |-> coll[id].specs, created_at |-> coll[id].created_at, stock |-> stock]

\* products, total_count of get_catalog, and the Inventory queries issued.
catalog(page, per_page, search_query, category, spec_filters) ==
  LET found == {id \in DOMAIN docs : matches(docs[id], search_query, category, spec_filters)}
      skip == (page - 1) * per_page
      products == skip_limit(newest_first(docs, found), skip, per_page)
      stock_by_id == inventory_map(inv, Range(products))
  IN [op |-> "get_catalog",
      products |-> [k \in DOMAIN products |->
                      with_stock(docs, products[k],
                                 IF products[k] \in DOMAIN stock_by_id
                                   THEN stock_by_id[products[k]] ELSE 0)],
      total_count |-> Cardinality(found),
      inventory_queries |-> inventory_queries(products)]

\* The view keeps the request next to what was returned for it.
get_catalog(page, per_page, search_query, category, spec_filters) ==
  /\ view = NoView
  /\ view' = ("request" :> [page |-> page, per_page |-> per_page,
                            search_query |-> search_query, category |-> category,
                            spec_filters |-> spec_filters])
              @@ catalog(page, per_page, search_query, category, spec_filters)
  /\ ReadOnly

\* ----------------------------------------------------- get_product_details
\* An identifier whose text ObjectId() rejects.
MalformedId == 0
is_valid(product_id) == product_id # MalformedId
DetailIds == ProductIds \cup {UnknownId, MalformedId}

\* What the call produces instead of a value when an exception leaves it.
Raised == [raised |-> TRUE]
\* Mutant: the conversion error leaves the call.
invalid_id_reraised == Raised
\* except: return None
invalid_id_result == None

product_details(product_id) ==
  IF ~is_valid(product_id) THEN invalid_id_result
  ELSE IF product_id \notin DOMAIN docs THEN None
  ELSE with_stock(docs, product_id, IF product_id \in DOMAIN inv THEN inv[product_id] ELSE 0)

get_product_details(product_id) ==
  /\ view = NoView
  /\ view' = [op |-> "get_product_details", arg |-> product_id,
              result |-> product_details(product_id)]
  /\ ReadOnly

\* -------------------------------------------------------------- get_facets
\* Python's order on the strings the model uses: categories by name,
\* specification values by the rank they are written as.
SpecValues == 1..2
CategoryRank == [c \in Categories |-> IF c = "c1" THEN 1 ELSE 2]
ValueRank == [v \in SpecValues |-> v]

RECURSIVE sorted(_, _)
\* sorted(...) of distinct values, as a list; rank gives their order.
sorted(values, rank) ==
  IF values = {} THEN <<>>
  ELSE LET least == CHOOSE x \in values : \A y \in values : rank[x] <= rank[y]
       IN <<least>> \o sorted(values \ {least}, rank)

\* Mutant: every attribute of the category is a facet.
is_facet_any(values) == Cardinality(values) >= 1
\* len(r["values"]) > 1
is_facet(values) == Cardinality(values) > 1

\* The aggregation pipeline: per attribute name, the set of its values
\* over the documents of the category ($match, $objectToArray, $unwind,
\* $group with $addToSet).
aggregate(coll, category) ==
  LET matched == {id \in DOMAIN coll : coll[id].category = category}
      keys == UNION {DOMAIN coll[id].specs : id \in matched}
  IN [k \in keys |-> {coll[id].specs[k] : id \in {i \in matched : k \in DOMAIN coll[i].specs}}]

facets(category) ==
  LET all_categories == sorted({docs[id].category : id \in DOMAIN docs}, CategoryRank)
      results == aggregate(docs, category)
      active_facets ==
        IF category # ""
          THEN [k \in {r \in DOMAIN results : is_facet(results[r])} |-> sorted(results[k], ValueRank)]
          ELSE [k \in {} |-> <<>>]
  IN [op |-> "get_facets", category |-> category,
      all_categories |-> all_categories, active_facets |-> active_facets]

get_facets(category) ==
  /\ view = NoView
  /\ view' = facets(category)
  /\ ReadOnly

\* ------------------------------------------- the read-side specification
\* The catalog holds MaxProducts products, each in some category with some
\* specs, all with an inventory row; one order for products 1 and 2 has
\* been placed.  Products are then deleted, and one read request is served
\* at some point in between.
\* Specification values are strings; the model writes each as its rank in
\* Python's string order (1 for "16GB", 2 for "8GB").
DocAttrs ==
  {[category |-> "c1", specs |-> ("ram" :> 2)],
   [category |-> "c1", specs |-> ("ram" :> 1)],
   [category |-> "c1", specs |-> ("ram" :> 2) @@ ("brand" :> 1)],
   [category |-> "c2", specs |-> ("ram" :> 1) @@ ("brand" :> 2)],
   [category |-> "c2", specs |-> NoSpecs]}
NameOf(p) == IF p % 2 = 1 THEN Name0 ELSE Name1
PlacedItems == <<OrderItem(1, 1, BasePrice), OrderItem(2, MaxQty, NewPrice)>>

InitReads ==
  /\ \E attrs \in [ProductIds -> DocAttrs] :
       docs = [p \in ProductIds |->
                 ProductDocument(NameOf(p), BasePrice, attrs[p].category, "img",
                                 attrs[p].specs, p)]
  /\ inv = [p \in ProductIds |-> InitStock + p]
  /\ orders = <<Order(1, PlacedItems, BasePrice + MaxQty * NewPrice)>>
  /\ nextId = MaxProducts + 1
  /\ Quiet

NextReads ==
  \/ delete_product_begin
  \/ delete_product_mongo
  \/ \E order_id \in 1..(Len(orders) + 1) : get_order_with_details(order_id)
  \/ \E page \in 1..MaxPage, per_page \in PageSizes, search_query \in SearchInputs,
        category \in CategoryInputs, spec_filters \in SpecFilterInputs :
       get_catalog(page, per_page, search_query, category, spec_filters)
  \/ \E product_id \in DetailIds : get_product_details(product_id)
  \/ \E category \in CategoryInputs : get_facets(category)

SpecReads == InitReads /\ [][NextReads]_vars

\* ------------------------------------------------------- the session cart
\* cart[c] is session["cart"] of customer c; checkout hands that list to
\* create_order. A customer's requests run one after the other.
\* The quantity one cart line is raised to.
MaxCartQty == 2
\* No checkout starts once the ledger holds this many orders.
MaxOrders == 1
\* The product identifiers of cart requests: the products on sale and one
\* that has no document.
CartIds == 1..InitProducts \cup {UnknownId}
CartActions == {"increase", "decrease", "reset"}

\* Index of the first cart item of product_id (the loops break there), or 0.
first_item(items, product_id) ==
  IF \E i \in DOMAIN items : items[i].product_id = product_id
    THEN CHOOSE i \in DOMAIN items :
           /\ items[i].product_id = product_id
           /\ \A j \in 1..(i - 1) : items[j].product_id # product_id
    ELSE 0

\* Mutant: item["qty"] -= 1 without the floor.
decreased_unfloored(qty) == Num(IntOf(qty) - 1)
\* item["qty"] -= 1; if item["qty"] < 1: item["qty"] = 1
decreased(qty) == IF IntOf(qty) - 1 < 1 THEN Num(1) ELSE Num(IntOf(qty) - 1)

\* The snapshot add_to_cart stores for a product it found.
cart_item(p) == [product_id |-> p._id, qty |-> Num(1), price |-> Num(p.price)]

cartFrame == UNCHANGED <<docs, inv, orders, nextId, pc, idx, new_items, total_amount,
                         session, outcome, adminVars, view>>

add_to_cart(c, product_id) ==
  /\ pc[c] = "idle"
  /\ LET i == first_item(cart[c], product_id)
     IN IF i # 0
          THEN /\ IntOf(cart[c][i].qty) < MaxCartQty
               /\ cart' = [cart EXCEPT ![c][i].qty = Num(IntOf(@) + 1)]
          ELSE LET p == product_details(product_id)
               IN cart' = IF p # None
                            THEN [cart EXCEPT ![c] = Append(@, cart_item(p))]
                            ELSE cart
  /\ cartFrame

update_quantity(c, product_id, action) ==
  /\ pc[c] = "idle"
  /\ LET i == first_item(cart[c], product_id)
     IN IF i = 0 THEN cart' = cart
        ELSE IF action = "increase"
          THEN /\ IntOf(cart[c][i].qty) < MaxCartQty
               /\ cart' = [cart EXCEPT ![c][i].qty = Num(IntOf(@) + 1)]
        ELSE IF action = "decrease"
          THEN cart' = [cart EXCEPT ![c][i].qty = decreased(@)]
        ELSE cart' = cart
  /\ cartFrame

remove_from_cart(c, product_id) ==
  /\ pc[c] = "idle"
  /\ cart' = [cart EXCEPT ![c] = SelectSeq(@, LAMBDA item : item.product_id # product_id)]
  /\ cartFrame

\* What the checkout handler answers.
Response(c, result) == [op |-> "checkout", customer |-> c, result |-> result]

\* checkout up to the call of create_order and the service's first step.
checkout(c) ==
  /\ pc[c] = "idle"
  /\ IF cart[c] = <<>>
       THEN /\ view' = Response(c, "cart_empty")
            /\ UNCHANGED <<docs, inv, orders, nextId, orderVars, adminVars>>
       ELSE /\ Len(orders) < MaxOrders
            /\ create_order_begin(c, {cart[c]})

\* Mutant: the cart is cleared whatever create_order did.
cart_after_always(c) == <<>>
\* session.pop("cart") after create_order returned; nothing in the handlers
\* of its exceptions.
cart_after(c) == IF outcome[c] \in {"ok", "none"} THEN <<>> ELSE cart[c]

\* checkout from the return of create_order to the response.
checkout_return(c) ==
  /\ pc[c] = "done"
  /\ cart' = [cart EXCEPT ![c] = cart_after(c)]
  /\ view' = Response(c, IF outcome[c] \in {"ok", "none"} THEN "success" ELSE "error")
  /\ pc' = [pc EXCEPT ![c] = "idle"]
  /\ idx' = [idx EXCEPT ![c] = 0]
  /\ new_items' = [new_items EXCEPT ![c] = <<>>]
  /\ total_amount' = [total_amount EXCEPT ![c] = 0]
  /\ outcome' = [outcome EXCEPT ![c] = "running"]
  /\ UNCHANGED <<docs, inv, orders, nextId, session, adminVars>>

NextCart ==
  \/ \E c \in Calls, product_id \in CartIds : add_to_cart(c, product_id)
  \/ \E c \in Calls, product_id \in CartIds, action \in CartActions :
       update_quantity(c, product_id, action)
  \/ \E c \in Calls, product_id \in CartIds : remove_from_cart(c, product_id)
  \/ \E c \in Calls : checkout(c)
  \/ \E c \in Calls : create_order_item(c)
  \/ \E c \in Calls : create_order_commit(c)
  \/ \E c \in Calls : create_order_fault(c)
  \/ \E c \in Calls : create_order_except(c)
  \/ \E c \in Calls : checkout_return(c)

SpecCart == Init /\ [][NextCart]_vars

\* -------------------------------------------------------------- toggle_url
\* request.args is a list of (key, value) pairs of strings; to_dict(flat=False)
\* groups it into a dict of lists and url_for writes a dict of lists back as
\* pairs. A template passes toggle_url a string or a number.
FilterKeys == {"ram", "brand"}
KeyOrder == <<"page", "q", "ram", "brand">>
Text(s) == <<"str", s>>
Number(n) == <<"int", n>>
Decimal == (8 :> "8") @@ (16 :> "16")
\* str(value)
str(value) == IF value[1] = "str" THEN value[2] ELSE Decimal[value[2]]
ToggleValues == {Text("8"), Text("16"), Number(8)}

\* The query strings of a request, as the dicts to_dict makes of them.
ArgsInputs ==
  {a \in UNION {[ks -> {<<"2">>, <<"8">>, <<"16">>, <<"8", "16">>, <<"16", "8">>, <<"8", "8">>}] :
                  ks \in SUBSET Range(KeyOrder)} :
     /\ "page" \in DOMAIN a => a["page"] = <<"2">>
     /\ "q" \in DOMAIN a => a["q"] = <<"8">>
     /\ "brand" \in DOMAIN a => a["brand"] = <<"8">>
     /\ "ram" \in DOMAIN a => a["ram"] # <<"2">>}

RECURSIVE pairs_of(_, _)
\* The (key, value) pairs of the keys listed, a pair per list element.
pairs_of(args, keys) ==
  IF keys = <<>> THEN <<>>
  ELSE (IF Head(keys) \in DOMAIN args
          THEN [i \in DOMAIN args[Head(keys)] |-> <<Head(keys), args[Head(keys)][i]>>]
          ELSE <<>>)
       \o pairs_of(args, Tail(keys))

\* url_for(request.endpoint, **args): the query string of the URL.
url_for(args) == pairs_of(args, KeyOrder)

RECURSIVE values_of(_, _)
values_of(query, key) ==
  IF query = <<>> THEN <<>>
  ELSE (IF Head(query)[1] = key THEN <<Head(query)[2]>> ELSE <<>>)
       \o values_of(Tail(query), key)

\* request.args.to_dict(flat=False)
to_dict(query) == [k \in {query[i][1] : i \in DOMAIN query} |-> values_of(query, k)]

\* list.remove(x): the list without the first x.
remove(list, x) ==
  LET i == CHOOSE i \in DOMAIN list : list[i] = x /\ \A j \in 1..(i - 1) : list[j] # x
  IN SubSeq(list, 1, i - 1) \o SubSeq(list, i + 1, Len(list))

\* The args toggle_url hands to url_for.
toggled(query, key, value) ==
  LET args == Without(to_dict(query), "page")
      current_vals == IF key \in DOMAIN args THEN args[key] ELSE <<>>
      str_val == str(value)
  IN IF str_val \in Range(current_vals)
       THEN IF remove(current_vals, str_val) = <<>>
              THEN Without(args, key)
              ELSE [args EXCEPT ![key] = remove(current_vals, str_val)]
       ELSE (key :> Append(current_vals, str_val)) @@ args

toggle_url(query, key, value) == url_for(toggled(query, key, value))

toggleFrame == UNCHANGED <<docs, inv, orders, nextId, orderVars, adminVars>>

\* A request arrives with its query string.
request_args ==
  /\ view = NoView
  /\ \E a \in ArgsInputs : view' = [op |-> "request", query |-> url_for(a)]
  /\ toggleFrame

\* The page renders a link with toggle_url(key, value).
toggle_url_link ==
  /\ view.op = "request"
  /\ \E key \in FilterKeys, value \in ToggleValues :
       view' = [op |-> "toggle_url", original |-> view.query, key |-> key, value |-> value,
                query |-> toggle_url(view.query, key, value), n |-> 1]
  /\ toggleFrame

\* The link is followed and the next page renders the same link.
toggle_url_again ==
  /\ view.op = "toggle_url" /\ view.n = 1
  /\ view' = [view EXCEPT !.query = toggle_url(view.query, view.key, view.value), !.n = 2]
  /\ toggleFrame

NextToggle == request_args \/ toggle_url_link \/ toggle_url_again

SpecToggle == Init /\ [][NextToggle]_vars

\* ================================================================ claims
\* Call c took the step (every create_order action moves pc or idx).
StepOf(c) == pc'[c] # pc[c] \/ idx'[c] # idx[c]
\* The step is the successful commit of call c (line 81 returned).
CommitStep(c) == pc[c] = "commit" /\ pc'[c] = "done"

RECURSIVE CartQty(_, _)
\* Units of product p requested by a cart whose quantities are numeric.
CartQty(items, p) ==
  IF items = <<>> THEN 0
  ELSE (IF Head(items).product_id = p THEN IntOf(Head(items).qty) ELSE 0)
       + CartQty(Tail(items), p)

RECURSIVE ItemsQty(_, _)
\* Units of product p recorded by a list of OrderItems.
ItemsQty(items, p) ==
  IF items = <<>> THEN 0
  ELSE (IF Head(items).product_id_str = p THEN Head(items).quantity ELSE 0)
       + ItemsQty(Tail(items), p)

RECURSIVE SucceededQty(_, _)
\* Units of product p requested by the calls 1..n that succeeded.
SucceededQty(p, n) ==
  IF n = 0 THEN 0
  ELSE (IF outcome[n] = "ok" THEN CartQty(cart[n], p) ELSE 0) + SucceededQty(p, n - 1)

AllDone == \A c \in Calls : pc[c] = "done"

\* C1: with create_order calls as the only writers of stock, once every call
\* has finished each product's stock is its initial stock minus the summed
\* quantities of the calls that succeeded.
C1_FinalStock ==
  AllDone => \A p \in DOMAIN inv : inv[p] = InitStock - SucceededQty(p, NumCalls)

\* Every call has finished and two calls that both bought product 1
\* succeeded.
C1_Witness ==
  /\ AllDone
  /\ \E a, b \in Calls :
       /\ a # b
       /\ outcome[a] = "ok" /\ outcome[b] = "ok"
       /\ CartQty(cart[a], 1) > 0 /\ CartQty(cart[b], 1) > 0

\* C2: the stock of every Inventory Record is never negative.
C2_StockNonNegative == \A p \in DOMAIN inv : inv[p] >= 0

\* A cart of one line item for product p with quantity q.
SingleItem(c, p, q) ==
  /\ Len(cart[c]) = 1
  /\ cart[c][1].product_id = p
  /\ cart[c][1].qty = Num(q)
  /\ IsNum(cart[c][1].price)

\* Calls a and b each ask for at most the stock of p, together for more, no
\* store error hit either, and no other call bought anything.
C3_Case(a, b, p, qa, qb) ==
  /\ a # b
  /\ pc[a] = "done" /\ pc[b] = "done"
  /\ SingleItem(a, p, qa) /\ SingleItem(b, p, qb)
  /\ qa <= InitStock /\ qb <= InitStock /\ qa + qb > InitStock
  /\ outcome[a] # "store_error" /\ outcome[b] # "store_error"
  /\ \A c \in Calls \ {a, b} : outcome[c] # "ok"

\* C3: of two concurrent calls for the same product whose quantities each fit
\* the stock but not together, exactly one succeeds, the other fails out of
\* stock, and the stock ends at the initial stock minus the winner's quantity.
C3_ExactlyOneSucceeds ==
  \A a, b \in Calls : \A p \in DOMAIN inv : \A qa, qb \in 1..MaxQty :
    C3_Case(a, b, p, qa, qb) =>
      \/ outcome[a] = "ok" /\ outcome[b] = "out_of_stock" /\ inv[p] = InitStock - qa
      \/ outcome[b] = "ok" /\ outcome[a] = "out_of_stock" /\ inv[p] = InitStock - qb

C3_Witness ==
  \E a, b \in Calls : \E p \in DOMAIN inv : \E qa, qb \in 1..MaxQty :
    /\ C3_Case(a, b, p, qa, qb)
    /\ outcome[a] = "ok" /\ outcome[b] = "out_of_stock"

\* C4: a create_order call that fails (missing Inventory Record, stock
\* shortfall, malformed item or store error) changes no committed stock and
\* creates no order: none of its steps writes the inventory or the order
\* ledger, and when it returns its transaction holds nothing.
C4_FailedCallChangesNothing ==
  [][\A c \in Calls :
       (StepOf(c) /\ outcome'[c] # "ok") =>
         /\ inv' = inv
         /\ orders' = orders
         /\ (pc'[c] = "done" => session'[c] = NoRows)
         /\ \A i \in DOMAIN orders' : orders'[i].customer # c]_vars

\* A call failed out of stock at its second line item after the first item
\* had been deducted in its transaction.
C4_Witness ==
  \E c \in Calls :
    /\ pc[c] = "done" /\ outcome[c] = "out_of_stock"
    /\ Len(cart[c]) = 2 /\ idx[c] = 2
    /\ \A i \in DOMAIN orders : orders[i].customer # c

\* Call c waits for the row lock of product p.
Waiting(c, p) ==
  /\ pc[c] = "loop"
  /\ IsNum(cart[c][idx[c]].qty) /\ IsNum(cart[c][idx[c]].price)
  /\ cart[c][idx[c]].product_id = p
  /\ p \in DOMAIN inv
  /\ ~LockFree(p, c)

\* C5: two create_order calls never deadlock: no two calls each wait for a
\* row lock the other holds.
C5_NoDeadlock ==
  \A a, b \in Calls : \A p, q \in ProductIds :
    ~(/\ a # b
      /\ Waiting(a, q) /\ q \in DOMAIN session[b]
      /\ Waiting(b, p) /\ p \in DOMAIN session[a])

\* C6: the deductions of a call and its order become visible in one step:
\* the commit step applies every deduction of the call and appends the order
\* with all its items; no other step of the call changes committed state.
C6_AtomicCommit ==
  [][\A c \in Calls :
       StepOf(c) =>
         IF CommitStep(c)
           THEN /\ DOMAIN inv' = DOMAIN inv
                /\ \A p \in DOMAIN inv : inv'[p] = inv[p] - ItemsQty(new_items[c], p)
                /\ Len(orders') = Len(orders) + 1
                /\ \A i \in DOMAIN orders : orders'[i] = orders[i]
                /\ orders'[Len(orders')].customer = c
                /\ orders'[Len(orders')].items = new_items[c]
                /\ Len(new_items[c]) = Len(cart[c])
           ELSE inv' = inv /\ orders' = orders]_vars

\* An order of two items for two different products has been committed.
C6_Witness ==
  \E i \in DOMAIN orders :
    /\ Len(orders[i].items) = 2
    /\ orders[i].items[1].product_id_str # orders[i].items[2].product_id_str
    /\ \A p \in DOMAIN inv : inv[p] < InitStock

\* C7: when create_product returns an error raised by its inventory step, the
\* document it had inserted is gone and no Inventory Record exists for it.
C7_CreateCompensated ==
  (kpc = "idle" /\ kResult \in {"bad_stock", "store_error"}) =>
    (kId \notin DOMAIN docs /\ kId \notin DOMAIN inv)

C9_ItemsFrozen ==
  [][\A i \in DOMAIN orders :
       i \in DOMAIN orders' /\ orders'[i].items = orders[i].items]_vars

\* An order exists whose status was changed, and one whose product was
\* re-priced or deleted afterwards.
C9_Witness ==
  \E i \in DOMAIN orders :
    /\ orders[i].status # "Processing"
    /\ orders[i].items # <<>>
    /\ LET p == orders[i].items[1].product_id_str
       IN p \notin DOMAIN docs \/ docs[p].price # orders[i].items[1].price_at_purchase

\* Item i of a list of OrderItems records what line item i of the cart says.
AsSupplied(items, cs) ==
  \A i \in DOMAIN items :
    /\ i \in DOMAIN cs
    /\ items[i].product_id_str = cs[i].product_id
    /\ items[i].price_at_purchase = IntOf(cs[i].price)
    /\ items[i].quantity = IntOf(cs[i].qty)

RECURSIVE ItemsTotal(_)
\* Sum of price_at_purchase * quantity over a sequence of OrderItems.
ItemsTotal(items) ==
  IF items = <<>> THEN 0
  ELSE items[1].price_at_purchase * items[1].quantity + ItemsTotal(Tail(items))

TotalsMatchItems == \A i \in DOMAIN orders : orders[i].total_amount = ItemsTotal(orders[i].items)
TotalsKept == \A i \in DOMAIN orders : orders'[i].total_amount = orders[i].total_amount

\* C11: in every reachable state the total amount of each order equals the
\* sum over its items of price-at-purchase times quantity, and no step (a
\* catalog price update, a product deletion, update_status) changes the
\* total of an order that exists.
C11_TotalIsSumOfItems == []TotalsMatchItems /\ [][TotalsKept]_vars

\* A shipped order of two items, one of whose products has been deleted
\* from the catalog since.
C11_Witness ==
  \E i \in DOMAIN orders :
    /\ orders[i].status = "Shipped"
    /\ Len(orders[i].items) = 2
    /\ \E k \in 1..2 : orders[i].items[k].product_id_str \notin DOMAIN docs

\* ---------------------------------------------------------------- C12
\* What the view of order i must show for its k-th item.
ItemShown(shown, item) ==
  /\ shown.product_id = item.product_id_str
  /\ shown.quantity = item.quantity
  /\ shown.price = item.price_at_purchase
  /\ IF item.product_id_str \in DOMAIN docs
       THEN shown.name = docs[item.product_id_str].name
            /\ shown.image = docs[item.product_id_str].image
       ELSE shown.name = ArchivedProduct /\ shown.image = Placeholder

\* C12: get_order_with_details of an existing order returns the order with
\* every item, also after products of the order were deleted: an item whose
\* product no longer resolves is labelled Archived Product with the
\* placeholder image, an item whose product exists carries that product's
\* current name and image.
C12_ArchivedItemsShown ==
  [][\A i \in DOMAIN orders :
       get_order_with_details(i) =>
         /\ view'.result # None
         /\ DOMAIN view'.result.items = DOMAIN orders[i].items
         /\ \A k \in DOMAIN orders[i].items :
              ItemShown(view'.result.items[k], orders[i].items[k])]_vars

\* The view of the order was returned after product 1 of its items was
\* deleted while product 2 still exists.
C12_Witness ==
  /\ view.op = "get_order_with_details" /\ view.arg = 1
  /\ 1 \notin DOMAIN docs /\ 2 \in DOMAIN docs
  /\ view.result.items[1].name = ArchivedProduct
  /\ view.result.items[2].name = docs[2].name

\* ---------------------------------------------------------------- C13
DocFields == {"name", "price", "category", "image", "specs", "created_at"}
\* The step changes at most the given field of the document product_id.
OnlyFieldChanged(product_id, field) ==
  /\ DOMAIN docs' = DOMAIN docs
  /\ \A q \in DOMAIN docs :
       \A f \in DocFields : (q # product_id \/ f # field) => docs'[q][f] = docs[q][f]
\* The step changes at most the stock of the inventory row product_id.
OnlyStockChanged(product_id) ==
  /\ DOMAIN inv' = DOMAIN inv
  /\ \A q \in DOMAIN inv : q # product_id => inv'[q] = inv[q]

\* C13: update_product with field 'stock' writes only the inventory row of
\* that product and leaves every document unchanged; with any other field
\* it writes only that field of that one document and leaves every
\* inventory row unchanged.  No step of update_product writes both stores.
C13_UpdateWritesOneStore ==
  [][/\ ops' # ops =>
          \A product_id \in AdminIds, field \in Fields :
            \A value \in FieldValues(field) :
              update_product(product_id, field, value) =>
                /\ inv' = inv /\ orders' = orders
                /\ IF field = "stock" THEN docs' = docs
                                      ELSE OnlyFieldChanged(product_id, field)
     /\ update_product_commit =>
          docs' = docs /\ orders' = orders /\ OnlyStockChanged(uArgs[1])]_vars

\* A stock update has set a row to 0 and a price update has repriced a
\* document, with no order placed.
C13_Witness ==
  /\ orders = <<>> /\ upc = "idle" /\ uResult = "ok"
  /\ \E q \in DOMAIN inv : inv[q] = 0
  /\ \E q \in DOMAIN docs : docs[q].price = NewPrice

\* ---------------------------------------------------------------- C14
\* The id has no document and no inventory row.
InNeitherStore(product_id) == product_id \notin DOMAIN docs /\ product_id \notin DOMAIN inv

\* C14: update_product for an id that exists in neither store returns the
\* not-found signal for every field name and leaves both stores unchanged.
C14_UnknownIdNotFound ==
  [][ops' # ops =>
       \A product_id \in AdminIds, field \in Fields :
         \A value \in FieldValues(field) :
           (InNeitherStore(product_id) /\ update_product(product_id, field, value)) =>
             uResult' = "not_found" /\ docs' = docs /\ inv' = inv]_vars

\* The part of C14 about the stores alone.
C14_UnknownIdWritesNothing ==
  [][ops' # ops =>
       \A product_id \in AdminIds, field \in Fields :
         \A value \in FieldValues(field) :
           (InNeitherStore(product_id) /\ update_product(product_id, field, value)) =>
             docs' = docs /\ inv' = inv]_vars

\* ---------------------------------------------------------------- C15
\* C15: delete_product for an id with no document and no inventory row
\* (a second delete of the same product included) runs to its end, raises
\* nothing and leaves both stores unchanged.
C15_DeleteIdempotent ==
  [][/\ ops' # ops =>
          \A product_id \in AdminIds :
            (InNeitherStore(product_id) /\ delete_product(product_id)) =>
              docs' = docs /\ inv' = inv /\ dpc' = "sql_done"
     /\ (InNeitherStore(dPid) /\ delete_product_mongo) =>
          docs' = docs /\ inv' = inv /\ dpc' = "idle"]_vars

\* Two deletes have returned and nothing else ran: one removed product 1,
\* the other was given an id that is in neither store (product 1 once
\* more, or an id never issued).
C15_Witness ==
  /\ ops = 2 /\ dpc = "idle" /\ kpc = "idle" /\ upc = "idle"
  /\ uResult = "none" /\ kResult = "none"
  /\ DOMAIN docs = 2..InitProducts /\ DOMAIN inv = 2..InitProducts

OverlapSecondWrite ==
  \/ kpc = "inserted" /\ kId \notin DOMAIN docs /\ kpc' = "idle"
  \/ dpc = "sql_done" /\ dPid \in DOMAIN inv /\ dpc' = "idle"

CreateRejected == kpc = "idle" /\ kResult \in {"bad_price", "bad_stock"}
\* A step of a create_order call that ends, or has ended, as malformed
\* commits no stock change and no order.
MalformedOrderWritesNothing ==
  \A c \in Calls :
    (StepOf(c) /\ outcome'[c] = "malformed") =>
      /\ inv' = inv /\ orders' = orders
      /\ \A i \in DOMAIN orders' : orders'[i].customer # c

\* C17: a write given malformed input fails as a whole: create_product
\* with a non-numeric price or stock leaves no document and no inventory
\* row behind, create_order with a non-numeric line item leaves all stock
\* unchanged and creates no order.
C17_MalformedWritesNothing ==
  /\ [](CreateRejected => (kId \notin DOMAIN docs /\ kId \notin DOMAIN inv))
  /\ [][MalformedOrderWritesNothing]_vars

\* The create_order half of C17 on its own.
C17_MalformedOrderWritesNothing == [][MalformedOrderWritesNothing]_vars

\* ---------------------------------------------------------------- C18
\* C18 (as stated): get_catalog issues exactly one Inventory query per call,
\* for every page size and every result, a page without documents included.
C18_ExactlyOneQuery == view.op = "get_catalog" => view.inventory_queries = 1

\* C18 (amended): get_catalog issues exactly one Inventory query when the
\* page it fetched holds at least one document, whatever the page size, and
\* none when the page is empty.
C18_OneQueryPerNonEmptyPage ==
  view.op = "get_catalog" =>
    view.inventory_queries = (IF Len(view.products) >= 1 THEN 1 ELSE 0)

\* A page of two documents was returned.
C18_Witness ==
  view.op = "get_catalog" /\ Len(view.products) = 2 /\ view.inventory_queries = 1

\* ---------------------------------------------------------------- C19
\* The stock an item of a read must carry.
StockOf(id) == IF id \in DOMAIN inv THEN inv[id] ELSE 0

\* C19: every item get_catalog or get_product_details returns carries the
\* stock of the inventory row with its id, and 0 when there is no such
\* row; a document without a row is still returned.
C19_StockJoined ==
  [][/\ view'.op = "get_catalog" /\ view.op = "none" =>
          \A k \in DOMAIN view'.products :
            view'.products[k].stock = StockOf(view'.products[k]._id)
     /\ \A product_id \in DetailIds :
          (get_product_details(product_id) /\ product_id \in DOMAIN docs) =>
            /\ view'.result # None
            /\ view'.result._id = product_id
            /\ view'.result.stock = StockOf(product_id)]_vars

\* A page was returned that holds a document whose inventory row is gone
\* (stock 0) next to one that has its row.
C19_Witness ==
  /\ view.op = "get_catalog"
  /\ \E k, j \in DOMAIN view.products :
       /\ view.products[k]._id \in DOMAIN docs \ DOMAIN inv
       /\ view.products[k].stock = 0
       /\ view.products[j]._id \in DOMAIN inv
       /\ view.products[j].stock > 0

\* ---------------------------------------------------------------- C20
SpecKeys == {"ram", "brand"}
\* The distinct values of attribute k over the documents of the category.
ValuesIn(category, k) ==
  {docs[id].specs[k] :
     id \in {i \in DOMAIN docs : docs[i].category = category /\ k \in DOMAIN docs[i].specs}}
\* The list holds exactly the given values, in ascending order.
IsSortedListOf(list, values) ==
  /\ Range(list) = values
  /\ \A i, j \in DOMAIN list : i < j => list[i] < list[j]

Accepted(doc, spec_filters) ==
  \A key \in DOMAIN spec_filters :
    key \in DOMAIN doc.specs /\ doc.specs[key] \in spec_filters[key]
\* The same, an attribute with an empty list of accepted values not counted
\* as filtered.
AcceptedNonEmpty(doc, spec_filters) ==
  \A key \in DOMAIN spec_filters :
    spec_filters[key] # {} =>
      (key \in DOMAIN doc.specs /\ doc.specs[key] \in spec_filters[key])
\* The documents a request asks for, by search term, category and the
\* given reading of the spec filters.
Wanted(request, ok(_, _)) ==
  {id \in DOMAIN docs :
     /\ request.search_query # <<>> => regex_i(request.search_query, docs[id].name)
     /\ request.category # "" => docs[id].category = request.category
     /\ ok(docs[id], request.spec_filters)}
\* The page returned holds wanted documents only, each once, as many as the
\* page has room for, and total_count counts all wanted documents.
PageOf(wanted) ==
  LET request == view'.request
      products == view'.products
      skip == (request.page - 1) * request.per_page
      rest == IF Cardinality(wanted) > skip THEN Cardinality(wanted) - skip ELSE 0
  IN /\ view'.total_count = Cardinality(wanted)
     /\ \A k \in DOMAIN products : products[k]._id \in wanted
     /\ \A k, j \in DOMAIN products : k # j => products[k]._id # products[j]._id
     /\ Len(products) = (IF rest < request.per_page THEN rest ELSE request.per_page)
CatalogStep == view.op = "none" /\ view'.op = "get_catalog"

\* C21 (as stated): get_catalog returns exactly the documents that have, for
\* every filtered attribute, one of its accepted values, and total_count is
\* the number of all such documents, not the size of the page.
C21_SpecFiltersExact ==
  [][CatalogStep => PageOf(Wanted(view'.request, Accepted))]_vars

\* C21 (amended): the same, where an attribute given with an empty list of
\* accepted values does not filter.
C21_NonEmptySpecFiltersExact ==
  [][CatalogStep => PageOf(Wanted(view'.request, AcceptedNonEmpty))]_vars

\* A request filtered on two attributes was answered with a page smaller
\* than the number of matching documents.
C21_Witness ==
  /\ view.op = "get_catalog"
  /\ DOMAIN view.request.spec_filters = {"ram", "brand"}
  /\ Len(view.products) >= 1
  /\ view.total_count > Len(view.products)

\* ---------------------------------------------------------------- C22
\* Call c has been given an empty cart and has returned.
EmptyCartReturned(c) == pc[c] = "done" /\ cart[c] = <<>>

\* C22: create_order with an empty list of line items returns no order,
\* creates no order and no order item and changes no inventory row.
C22_EmptyCartNoOp ==
  /\ [](\A c \in Calls :
         (pc[c] # "idle" /\ cart[c] = <<>>) =>
           /\ pc[c] = "done" /\ outcome[c] = "none" /\ session[c] = NoRows
           /\ \A i \in DOMAIN orders : orders[i].customer # c)
  /\ [][\A c \in Calls :
          (pc[c] = "idle" /\ pc'[c] # "idle" /\ cart'[c] = <<>>) =>
            inv' = inv /\ orders' = orders /\ session' = session]_vars

\* One call was given an empty cart and returned nothing while the other
\* placed an order.
C22_Witness ==
  \E c, d \in Calls :
    /\ EmptyCartReturned(c) /\ outcome[c] = "none"
    /\ pc[d] = "done" /\ outcome[d] = "ok" /\ Len(orders) = 1

\* ---------------------------------------------------------------- C23
\* C23: update_status overwrites the status of an existing order with any
\* value from any current status and returns the order; it changes nothing
\* but that order's status (no other order, no order item, no inventory
\* row, also when the new status is Cancelled); for an unknown order id it
\* returns None and changes nothing.
C23_StatusOverwrite ==
  [][ops' # ops =>
       \A order_id \in 1..(Len(orders) + 1), new_status \in StatusInputs :
         update_status_call(order_id, new_status) =>
           /\ inv' = inv /\ docs' = docs /\ session' = session
           /\ DOMAIN orders' = DOMAIN orders
           /\ \A i \in DOMAIN orders : i # order_id => orders'[i] = orders[i]
           /\ IF order_id \in DOMAIN orders
                THEN /\ orders'[order_id].status = new_status
                     /\ orders'[order_id].items = orders[order_id].items
                     /\ orders'[order_id].total_amount = orders[order_id].total_amount
                     /\ orders'[order_id].customer = orders[order_id].customer
                     /\ view'.result = orders'[order_id]
                ELSE orders' = orders /\ view'.result = [none |-> TRUE]]_vars

\* Two status updates have run on the first of two orders, the last one
\* returned it as Cancelled, and the stock its items took is still gone.
C23_Witness ==
  /\ ops = 2 /\ Len(orders) = 2
  /\ view.op = "update_status" /\ view.result = orders[1]
  /\ orders[1].status = "Cancelled" /\ orders[2].status = "Processing"
  /\ \A c \in Calls : pc[c] = "done"
  /\ \E p \in DOMAIN inv : inv[p] < InitStock

\* ---------------------------------------------------------------- C24
\* C24: get_product_details called with an identifier of invalid format, or
\* with a well-formed identifier that has no Product Document, returns None
\* (it does not raise) and changes neither store.
C24_DetailsFailSoft ==
  [][\A product_id \in DetailIds :
       (get_product_details(product_id)
          /\ (~is_valid(product_id) \/ product_id \notin DOMAIN docs)) =>
         /\ view'.result = None
         /\ docs' = docs /\ inv' = inv /\ orders' = orders]_vars

\* A lookup with a malformed identifier has returned None while the catalog
\* holds documents.
C24_Witness ==
  /\ view.op = "get_product_details"
  /\ ~is_valid(view.arg)
  /\ view.result = None
  /\ DOMAIN docs # {}

\* ---------------------------------------------------------------- C25
\* C25: every Order created by create_order has status Processing and at
\* least one Order Item, and every Order Item it records has a positive
\* integer quantity.
C25_OrdersWellFormed ==
  \A i \in DOMAIN orders :
    /\ orders[i].status = "Processing"
    /\ Len(orders[i].items) >= 1
    /\ \A k \in DOMAIN orders[i].items : orders[i].items[k].quantity > 0

\* ---------------------------------------------------------------- C26
\* Call c holds the row lock of product p.
Holds(c, p) == p \in DOMAIN session[c]

\* C26: from the step in which a create_order call locks a product's
\* inventory row to the step in which it commits or rolls back, no other
\* create_order call selects that row (reads its stock) and the committed
\* stock of the row does not change; at most one call holds the row.
C26_LockExcludesOthers ==
  /\ [](\A p \in ProductIds : Cardinality(LockedBy(p)) <= 1)
  /\ [][\A c \in Calls : \A p \in ProductIds :
         (Holds(c, p) /\ Holds(c, p)') =>
           /\ inv'[p] = inv[p]
           /\ \A d \in Calls \ {c} : ~Holds(d, p)']_vars

\* One call has locked product 1 and deducted from it, uncommitted, while
\* another call is waiting to select the same row.
C26_Witness ==
  \E c, d \in Calls :
    /\ c # d
    /\ Holds(c, 1) /\ session[c][1] < inv[1] /\ pc[c] \in {"loop", "commit"}
    /\ Waiting(d, 1) /\ ~Holds(d, 1)

\* ---------------------------------------------------------------- C27
\* The products of a list of OrderItems.
ProductsOf(items) == {items[i].product_id_str : i \in DOMAIN items}
\* Position of the first OrderItem of product p: the rows are locked in the
\* order the items are built, a row at the first item that names it.
FirstLock(items, p) ==
  CHOOSE i \in DOMAIN items :
    /\ items[i].product_id_str = p
    /\ \A j \in 1..(i - 1) : items[j].product_id_str # p

\* C27: within one create_order call the rows are locked in an order that
\* does not depend on the order of the line items: two calls that both
\* locked products p and q locked them in the same order.
C27_LockOrderFixed ==
  \A c, d \in Calls :
    (pc[c] = "done" /\ outcome[c] = "ok" /\ pc[d] = "done" /\ outcome[d] = "ok") =>
      \A p, q \in ProductsOf(new_items[c]) \cap ProductsOf(new_items[d]) :
        (FirstLock(new_items[c], p) < FirstLock(new_items[c], q))
          <=> (FirstLock(new_items[d], p) < FirstLock(new_items[d], q))

\* ---------------------------------------------------------------- C28
\* Call c names product p in one of its line items.
Includes(c, p) == \E i \in DOMAIN cart[c] : cart[c][i].product_id = p

\* C28: once delete_product has removed a product's inventory row, a
\* create_order call that reaches a line item of that product fails there
\* with out-of-stock, and its rollback changes no stock and creates no
\* order; no call that includes a product without inventory row commits.
\* None of this looks at the product's document.
C28_DeletedIsOutOfStock ==
  [][\A c \in Calls :
       /\ (create_order_item(c) /\ cart[c][idx[c]].product_id \notin DOMAIN inv) =>
            /\ pc'[c] = "except" /\ outcome'[c] = "out_of_stock"
            /\ inv' = inv /\ orders' = orders
       /\ (create_order_except(c) /\ outcome[c] = "out_of_stock") =>
            inv' = inv /\ orders' = orders
       /\ CommitStep(c) => \A p \in ProductIds : Includes(c, p) => p \in DOMAIN inv]_vars

\* The delete of a product has removed its inventory row and not yet its
\* document, and a call that includes the product has failed with
\* out-of-stock at that item; no order exists and no stock has changed.
C28_Witness ==
  \E c \in Calls :
    /\ dpc = "sql_done" /\ dPid \in DOMAIN docs /\ dPid \notin DOMAIN inv
    /\ pc[c] = "done" /\ outcome[c] = "out_of_stock"
    /\ cart[c][idx[c]].product_id = dPid
    /\ orders = <<>>
    /\ \A p \in DOMAIN inv : inv[p] = InitStock

\* ---------------------------------------------------------------- C29
\* One update of the stock of p to v and one checkout c of q units of p have
\* both returned, no store error hit either, and nothing else touched p.
C29_Case(c, p, q, v) ==
  /\ ops = 1 /\ upc = "idle" /\ uResult = "ok"
  /\ view.op = "update_product" /\ view.arg = <<p, v>>
  /\ pc[c] = "done" /\ outcome[c] \in {"ok", "out_of_stock"}
  /\ SingleItem(c, p, q)
  /\ \A d \in Calls \ {c} : pc[d] = "idle"

\* Stock of p and outcome of the checkout when the update runs first.
UpdateThenOrder(c, p, q, v) ==
  IF q <= v THEN outcome[c] = "ok" /\ inv[p] = v - q
            ELSE outcome[c] = "out_of_stock" /\ inv[p] = v
\* Stock of p and outcome of the checkout when the checkout runs first.
OrderThenUpdate(c, p, q, v) ==
  /\ IF q <= InitStock THEN outcome[c] = "ok" ELSE outcome[c] = "out_of_stock"
  /\ inv[p] = v

\* C29: an update of a product's stock that overlaps a create_order of the
\* same product leaves the stock and the checkout's outcome of one of the
\* two serial orders; the update writes the row only while no checkout holds
\* it, and a checkout's commit deducts from the count committed at that
\* moment, so no deduction is lost or applied to a stale count.
C29_UpdateSerialisesWithOrder ==
  /\ [](\A c \in Calls : \A p \in 1..InitProducts : \A q \in 1..MaxQty :
          \A v \in {IntOf(value) : value \in NewStockInputs} :
            C29_Case(c, p, q, v) =>
              UpdateThenOrder(c, p, q, v) \/ OrderThenUpdate(c, p, q, v))
  /\ [][/\ (update_product_commit /\ inv' # inv) => LockedBy(uArgs[1]) = {}
        /\ \A c \in Calls : CommitStep(c) =>
             \A p \in DOMAIN session[c] : inv'[p] = inv[p] - CartQty(cart[c], p)]_vars

\* An update of the stock of product 1 and a checkout of product 1 have both
\* returned, the checkout succeeded and the stock is the value the update
\* set: the outcome of the checkout running first.
C29_Witness ==
  \E c \in Calls :
    /\ C29_Case(c, 1, MaxQty, MaxQty)
    /\ outcome[c] = "ok" /\ inv[1] = MaxQty
    /\ Len(orders) = 1

\* ---------------------------------------------------------------- C30
\* The product as the read operations return it after create_product(price,
\* stock) gave it the identifier id.
Created(id, price, stock) ==
  [_id |-> id, name |-> Name0, price |-> IntOf(price), category |-> "c1",
   image |-> DefaultImage, specs |-> NoSpecs, created_at |-> id,
   stock |-> IntOf(stock)]

\* The unfiltered catalog, all of it on one page.
WholeCatalog == catalog(1, MaxProducts, <<>>, "", NoFilters).products

\* The step belongs to an update or a delete of product p.
UpdateOrDeleteOf(p) ==
  \/ \E field \in Fields : \E value \in FieldValues(field) : update_product(p, field, value)
  \/ update_product_commit /\ uArgs[1] = p
  \/ delete_product(p)
  \/ delete_product_mongo /\ dPid = p

\* C30: when create_product returns successfully and no update or delete
\* has touched the new document meanwhile, get_product_details of the new
\* identifier returns the created fields with the initial stock and
\* get_catalog lists the product with that stock; what get_product_details
\* returns for a product with document and inventory row changes only in a
\* step of an update or a delete of that product.
C30_CreatedIsRead ==
  [][/\ (/\ create_product_inventory /\ kResult' = "ok"
         /\ kId \in DOMAIN docs
         /\ docs[kId] = ProductDocument(Name0, IntOf(kArgs[1]), "c1", DefaultImage, NoSpecs, kId)) =>
          /\ product_details(kId)' = Created(kId, kArgs[1], kArgs[2])
          /\ \E k \in DOMAIN WholeCatalog' : WholeCatalog'[k] = Created(kId, kArgs[1], kArgs[2])
     /\ \A p \in ProductIds :
          (/\ p \in DOMAIN docs /\ p \in DOMAIN inv
           /\ product_details(p)' # product_details(p)) => UpdateOrDeleteOf(p)]_vars

\* create_product has returned successfully with initial stock MaxQty and the
\* new product is read back with that stock, first in the catalog.
C30_Witness ==
  /\ kResult = "ok" /\ kpc = "idle" /\ kId \in DOMAIN docs /\ kId \in DOMAIN inv
  /\ inv[kId] = MaxQty
  /\ product_details(kId) = Created(kId, Num(docs[kId].price), Num(MaxQty))
  /\ WholeCatalog[1] = product_details(kId)

\* ---------------------------------------------------------------- C31
RECURSIVE CartTotal(_)
\* Sum of unit price times quantity over the line items a caller supplied.
CartTotal(items) ==
  IF items = <<>> THEN 0
  ELSE IntOf(Head(items).price) * IntOf(Head(items).qty) + CartTotal(Tail(items))

\* The create_order calls that have returned an order.
Succeeded == {c \in Calls : pc[c] = "done" /\ outcome[c] = "ok"}

RECURSIVE SucceededTotal(_)
\* Sum of the cart totals of the calls 1..n that succeeded.
SucceededTotal(n) ==
  IF n = 0 THEN 0
  ELSE (IF n \in Succeeded THEN CartTotal(cart[n]) ELSE 0) + SucceededTotal(n - 1)

WellFormedCart(items) ==
  /\ \A i \in DOMAIN items : IsNum(items[i].qty) /\ IntOf(items[i].qty) >= 1
  /\ \A i, j \in DOMAIN items : items[i].product_id = items[j].product_id => i = j

ReturnStep(c) == pc[c] = "done" /\ pc'[c] = "idle"

\* C33: checkout empties the session cart exactly when create_order
\* succeeded: the cart is cleared in the step that answers a successful
\* call, it is the same list in every other step of a running checkout and
\* after a call that failed (out of stock, store error), and a checkout of an
\* empty cart answers without calling create_order, so no call ever runs on
\* an empty cart.
C33_CartClearedOnSuccessOnly ==
  /\ [](\A c \in Calls : pc[c] # "idle" => cart[c] # <<>>)
  /\ [][\A c \in Calls :
         /\ (ReturnStep(c) /\ outcome[c] = "ok") =>
              cart'[c] = <<>> /\ view' = Response(c, "success")
         /\ (ReturnStep(c) /\ outcome[c] # "ok") =>
              cart'[c] = cart[c] /\ view' = Response(c, "error")
         /\ (pc[c] # "idle" /\ ~ReturnStep(c)) => cart'[c] = cart[c]
         /\ (checkout(c) /\ cart[c] = <<>>) =>
              /\ view' = Response(c, "cart_empty")
              /\ pc' = pc /\ orders' = orders /\ inv' = inv /\ session' = session]_vars

\* One customer's checkout succeeded and emptied the cart; the other's has
\* just failed and the cart still holds what was in it.
C33_Witness ==
  \E c, d \in Calls :
    /\ c # d /\ pc[c] = "idle" /\ pc[d] = "idle"
    /\ view = Response(c, "error") /\ cart[c] # <<>>
    /\ Len(orders) = 1 /\ orders[1].customer = d /\ cart[d] = <<>>

\* ---------------------------------------------------------------- C34
\* The values selected for key in a query string.
Selected(query, key) == {query[i][2] : i \in {j \in DOMAIN query : query[j][1] = key}}
KeysOf(query) == {query[i][1] : i \in DOMAIN query}

\* C34: toggle_url(key, value) adds value to the values selected for key
\* when it is absent and removes it when it is present, so that the link of
\* the page it leads to restores the original selection; the URL never
\* carries page, and every other key keeps its values.
C34_ToggleInvolution ==
  view.op = "toggle_url" =>
    LET o == view.original
        q == view.query
        k == view.key
        v == str(view.value)
    IN /\ "page" \notin KeysOf(q)
       /\ \A other \in Range(KeyOrder) \ {k, "page"} :
            values_of(q, other) = values_of(o, other)
       /\ view.n = 1 =>
            Selected(q, k) = IF v \in Selected(o, k) THEN Selected(o, k) \ {v}
                                                      ELSE Selected(o, k) \cup {v}
       /\ view.n = 2 => Selected(q, k) = Selected(o, k)

====
